---- MODULE Spec2Model ----
(***************************************************************************)
(* Verification model of the deterministic core of the crypto-misuse       *)
(* detector: the rule engine (baselines/rule_based.py), the normalizer     *)
(* (preprocessing/normalizer.py), the feature extractor                    *)
(* (preprocessing/parser.py) and the trained-flag protocol of the          *)
(* classifier (baselines/simple_classifier.py).                            *)
(*                                                                         *)
(* A snippet is a sequence of characters, each character a one-character   *)
(* string.  Python's `re` is modelled by a small backtracking matcher over *)
(* a pattern tree: MatchEnds gives, for a start position, the end          *)
(* positions of all matches in the order Python's backtracking tries them, *)
(* so that Head of it is the match `re` reports.                           *)
(***************************************************************************)
EXTENDS Naturals, Sequences, FiniteSets, TLC

\* ------------------------------------------------------------ characters

DQ == "\""
NL == "\n"
CR == "\r"
TAB == "\t"
SP == " "

\* \s of a str pattern, within the characters the model uses
WhiteSpace == {SP, TAB, NL, CR, "\f"}

\* \d
Digits == {"0", "1", "2", "3", "4", "5", "6", "7", "8", "9"}

LowerCase ==
  {"a", "b", "c", "d", "e", "f", "g", "h", "i", "j", "k", "l", "m",
   "n", "o", "p", "q", "r", "s", "t", "u", "v", "w", "x", "y", "z"}

\* upper-case letter |-> lower-case letter
FoldTable ==
  [A |-> "a", B |-> "b", C |-> "c", D |-> "d", E |-> "e", F |-> "f",
   G |-> "g", H |-> "h", I |-> "i", J |-> "j", K |-> "k", L |-> "l",
   M |-> "m", N |-> "n", O |-> "o", P |-> "p", Q |-> "q", R |-> "r",
   S |-> "s", T |-> "t", U |-> "u", V |-> "v", W |-> "w", X |-> "x",
   Y |-> "y", Z |-> "z"]

UpperCase == DOMAIN FoldTable

\* \w
WordChars == LowerCase \cup UpperCase \cup Digits \cup {"_"}

\* the case folding re.IGNORECASE compares characters under
Fold(c) == IF c \in UpperCase THEN FoldTable[c] ELSE c

\* two characters are the same to a pattern compiled with (ic) or without re.IGNORECASE
EqChar(c, d, ic) == IF ic THEN Fold(c) = Fold(d) ELSE c = d

\* c is in the character set cs, under re.IGNORECASE when ic
InSet(c, cs, ic) == IF ic THEN \E d \in cs : Fold(d) = Fold(c) ELSE c \in cs

\* ---------------------------------------------------------- pattern trees

Lit(str) == [t |-> "lit", str |-> str]                 \* a literal string
Set(cs) == [t |-> "set", cs |-> cs, neg |-> FALSE]     \* [...]
NotSet(cs) == [t |-> "set", cs |-> cs, neg |-> TRUE]   \* [^...]
Cat(rs) == [t |-> "cat", rs |-> rs]                    \* r1 r2 ...
Alt(rs) == [t |-> "alt", rs |-> rs]                    \* r1|r2|...
\* r{lo,hi} (inf: no upper limit); greedy, or lazy (r{lo,hi}?)
Rep(r, lo, hi, greedy) ==
  [t |-> "rep", r |-> r, lo |-> lo, hi |-> hi, inf |-> FALSE, greedy |-> greedy]
RepInf(r, lo, greedy) ==
  [t |-> "rep", r |-> r, lo |-> lo, hi |-> lo, inf |-> TRUE, greedy |-> greedy]
WordB == [t |-> "wb"]                                  \* \b
LineStart == [t |-> "bol"]                             \* ^ under re.MULTILINE

Star(r) == RepInf(r, 0, TRUE)                          \* r*
Plus(r) == RepInf(r, 1, TRUE)                          \* r+
LazyStar(r) == RepInf(r, 0, FALSE)                     \* r*?
Opt(r) == Rep(r, 0, 1, TRUE)                           \* r?
AnyChar == NotSet({})                                  \* . under re.DOTALL
WS == Set(WhiteSpace)                                  \* \s
Dig == Set(Digits)                                     \* \d
WordC == Set(WordChars)                                \* \w

\* ----------------------------------------------------------------- matcher

IsWordAt(s, i) == i >= 1 /\ i <= Len(s) /\ s[i] \in WordChars

\* \b at position i: exactly one of s[i-1], s[i] is a word character
AtWordBoundary(s, i) == IsWordAt(s, i - 1) # IsWordAt(s, i)

LitAt(str, s, i, ic) ==
  /\ i + Len(str) - 1 <= Len(s)
  /\ \A k \in 1..Len(str) : EqChar(s[i + k - 1], str[k], ic)

\* the least number of a nonempty set
Least(S) == CHOOSE j \in S : \A q \in S : j <= q

\* how many characters from i on are in the character set node r
RunLength(r, s, i, ic) ==
  Least({j \in i..(Len(s) + 1) : j > Len(s) \/ (InSet(s[j], r.cs, ic) = r.neg)}) - i

\* the ends of a repeated character set from i that can take lo to most characters
SetRepRange(re, i, most) ==
  IF most < re.lo THEN << >>
  ELSE IF re.greedy THEN [k \in 1..(most - re.lo + 1) |-> i + most + 1 - k]
  ELSE [k \in 1..(most - re.lo + 1) |-> i + re.lo + k - 1]

\* a run of set characters cut at the repeat's upper limit
CutRun(re, run) == IF re.inf \/ run < re.hi THEN run ELSE re.hi

\* a repeated character set from i: it can take lo to most characters, most
\* being the run of set characters at i cut at hi; a greedy repeat tries the
\* longest first, a lazy one the shortest
SetRepEnds(re, s, i, ic) == SetRepRange(re, i, CutRun(re, RunLength(re.r, s, i, ic)))

RECURSIVE MatchEnds(_, _, _, _)
RECURSIVE CatEnds(_, _, _, _, _, _, _)
RECURSIVE CatOver(_, _, _, _, _)
RECURSIVE AltEnds(_, _, _, _, _, _)
RECURSIVE RepEnds(_, _, _, _, _, _)
RECURSIVE RepOver(_, _, _, _, _, _, _, _, _)

\* The end positions (index of the character after the match) of the matches
\* of pattern re in s that start at i, in backtracking order.
MatchEnds(re, s, i, ic) ==
  CASE re.t = "lit" -> IF LitAt(re.str, s, i, ic) THEN <<i + Len(re.str)>> ELSE << >>
    [] re.t = "set" -> IF i <= Len(s) /\ (InSet(s[i], re.cs, ic) # re.neg)
                       THEN <<i + 1>> ELSE << >>
    [] re.t = "wb"  -> IF AtWordBoundary(s, i) THEN <<i>> ELSE << >>
    [] re.t = "bol" -> IF i = 1 \/ s[i - 1] = NL THEN <<i>> ELSE << >>
    [] re.t = "cat" -> CatEnds(re.rs, 1, s, <<i>>, 1, 1, ic)
    [] re.t = "alt" -> AltEnds(re.rs, 1, Len(re.rs), s, i, ic)
    [] re.t = "rep" /\ re.r.t = "set" -> SetRepEnds(re, s, i, ic)
    [] re.t = "rep" /\ re.r.t # "set" -> RepEnds(re, re.lo, re.hi, s, i, ic)

\* rs[k], rs[k+1], ... in sequence, tried from each of the positions
\* from[lo..hi] in order: from those of the lower half of the range, then
\* from those of the upper half
CatEnds(rs, k, s, from, lo, hi, ic) ==
  CASE lo > hi -> << >>
    [] lo < hi -> CatEnds(rs, k, s, from, lo, (lo + hi) \div 2, ic)
                  \o CatEnds(rs, k, s, from, (lo + hi) \div 2 + 1, hi, ic)
    [] lo = hi /\ k > Len(rs) -> <<from[lo]>>
    [] lo = hi /\ k <= Len(rs) -> CatOver(rs, k, s, MatchEnds(rs[k], s, from[lo], ic), ic)

\* the rest of the sequence tried from each end of rs[k], in order
CatOver(rs, k, s, ends, ic) == CatEnds(rs, k + 1, s, ends, 1, Len(ends), ic)

\* the alternatives rs[lo..hi] tried in order
AltEnds(rs, lo, hi, s, i, ic) ==
  CASE lo > hi -> << >>
    [] lo = hi -> MatchEnds(rs[lo], s, i, ic)
    [] lo < hi -> AltEnds(rs, lo, (lo + hi) \div 2, s, i, ic)
                  \o AltEnds(rs, (lo + hi) \div 2 + 1, hi, s, i, ic)

\* re.r repeated lo to hi times more from i: a greedy repeat tries one more
\* re.r first, a lazy one stops first
RepEnds(re, lo, hi, s, i, ic) ==
  LET stop == IF lo = 0 THEN <<i>> ELSE << >>
      more == IF ~re.inf /\ hi = 0 THEN << >>
              ELSE LET ends == MatchEnds(re.r, s, i, ic)
                   IN RepOver(re, lo, hi, s, i, ends, 1, Len(ends), ic)
  IN IF re.greedy THEN more \o stop ELSE stop \o more

\* the repeat continued from each of ends[a..b], the ends of one more re.r, in order
RepOver(re, lo, hi, s, i, ends, a, b, ic) ==
  CASE a > b -> << >>
    [] a < b -> RepOver(re, lo, hi, s, i, ends, a, (a + b) \div 2, ic)
                \o RepOver(re, lo, hi, s, i, ends, (a + b) \div 2 + 1, b, ic)
    [] a = b /\ ends[a] <= i -> << >>
    [] a = b /\ ends[a] > i ->
         RepEnds(re, IF lo = 0 THEN 0 ELSE lo - 1,
                 IF hi = 0 THEN 0 ELSE hi - 1, s, ends[a], ic)

\* pattern.search(s) is not None
Search(re, s, ic) == \E i \in 1..(Len(s) + 1) : MatchEnds(re, s, i, ic) # << >>

\* the match that starts at i, as <<start, end>>
MatchAt(re, s, i, ic) == <<i, Head(MatchEnds(re, s, i, ic))>>

\* the leftmost match starting at or after pos, as <<start, end>>; << >> if none
FirstMatch(re, s, pos, ic) ==
  IF \A p \in pos..(Len(s) + 1) : MatchEnds(re, s, p, ic) = << >> THEN << >>
  ELSE MatchAt(re, s, Least({p \in pos..(Len(s) + 1) : MatchEnds(re, s, p, ic) # << >>}), ic)

\* re.sub(re, repl, s) for a pattern that matches no empty string
RECURSIVE SubFrom(_, _, _, _, _)
SubFrom(re, repl, s, pos, ic) ==
  LET m == FirstMatch(re, s, pos, ic)
  IN IF m = << >> THEN SubSeq(s, pos, Len(s))
     ELSE SubSeq(s, pos, m[1] - 1) \o repl \o SubFrom(re, repl, s, m[2], ic)

Sub(re, repl, s, ic) == SubFrom(re, repl, s, 1, ic)

\* re.findall(re, s) for a pattern without groups that matches no empty
\* string: the matched texts, left to right, each search resumed at the end
\* of the match before
RECURSIVE FindAllFrom(_, _, _, _)
FindAllFrom(re, s, pos, ic) ==
  LET m == FirstMatch(re, s, pos, ic)
  IN IF m = << >> THEN << >>
     ELSE <<SubSeq(s, m[1], m[2] - 1)>> \o FindAllFrom(re, s, m[2], ic)

FindAll(re, s, ic) == FindAllFrom(re, s, 1, ic)

\* ---------------------------------------------------------------- helpers

Range(f) == {f[x] : x \in DOMAIN f}

\* the first position at or after i that holds no whitespace
RECURSIVE SkipWs(_, _)
SkipWs(s, i) == IF i <= Len(s) /\ s[i] \in WhiteSpace THEN SkipWs(s, i + 1) ELSE i

\* the first position at or after i that holds a character of cs (Len(s) + 1: none)
RECURSIVE FindChar(_, _, _)
FindChar(s, cs, i) == IF i > Len(s) \/ s[i] \in cs THEN i ELSE FindChar(s, cs, i + 1)

RECURSIVE TrimLeft(_)
TrimLeft(s) == IF s # << >> /\ Head(s) \in WhiteSpace THEN TrimLeft(Tail(s)) ELSE s

RECURSIVE TrimRight(_)
TrimRight(s) ==
  IF s # << >> /\ s[Len(s)] \in WhiteSpace THEN TrimRight(SubSeq(s, 1, Len(s) - 1)) ELSE s

\* ------------------------------------------------------------- rule engine

\* the literal texts of the rule patterns
S_CipherGetInstance == <<"C", "i", "p", "h", "e", "r", ".", "g", "e", "t", "I", "n",
  "s", "t", "a", "n", "c", "e">>
S_MessageDigestGetInstance == <<"M", "e", "s", "s", "a", "g", "e", "D", "i", "g", "e",
  "s", "t", ".", "g", "e", "t", "I", "n", "s", "t", "a", "n", "c", "e">>
S_new == <<"n", "e", "w">>
S_SecretKeySpec == <<"S", "e", "c", "r", "e", "t", "K", "e", "y", "S", "p", "e", "c">>
S_byte == <<"b", "y", "t", "e">>
S_getBytes == <<".", "g", "e", "t", "B", "y", "t", "e", "s">>
S_IvParameterSpec == <<"I", "v", "P", "a", "r", "a", "m", "e", "t", "e", "r", "S", "p",
  "e", "c">>
S_Random == <<"R", "a", "n", "d", "o", "m">>
S_PBEKeySpec == <<"P", "B", "E", "K", "e", "y", "S", "p", "e", "c">>
S_ECB == <<"E", "C", "B">>
S_MD5 == <<"M", "D", "5">>
S_SHA == <<"S", "H", "A">>
S_DES == <<"D", "E", "S">>
S_NoPadding == <<"N", "o", "P", "a", "d", "d", "i", "n", "g">>

LP == Lit(<<"(">>)
Quote == Lit(<<DQ>>)
NoQuote == NotSet({DQ})

\* Cipher\.getInstance\s*\(\s*\"[^\"]*ECB[^\"]*\"
P_ecb_mode ==
  Cat(<<Lit(S_CipherGetInstance), Star(WS), LP, Star(WS), Quote,
        Star(NoQuote), Lit(S_ECB), Star(NoQuote), Quote>>)

\* MessageDigest\.getInstance\s*\(\s*\"MD5\"\s*\)
P_md5_hash ==
  Cat(<<Lit(S_MessageDigestGetInstance), Star(WS), LP, Star(WS), Quote,
        Lit(S_MD5), Quote, Star(WS), Lit(<<")">>)>>)

\* MessageDigest\.getInstance\s*\(\s*\"SHA-?1\"\s*\)
P_sha1_hash ==
  Cat(<<Lit(S_MessageDigestGetInstance), Star(WS), LP, Star(WS), Quote,
        Lit(S_SHA), Opt(Lit(<<"-">>)), Lit(<<"1">>), Quote, Star(WS), Lit(<<")">>)>>)

\* new\s+byte\s*\[\s*\]\s*\{
ByteArrayOpen ==
  <<Lit(S_new), Plus(WS), Lit(S_byte), Star(WS), Lit(<<"[">>), Star(WS),
    Lit(<<"]">>), Star(WS), Lit(<<"{">>)>>

\* new\s+SecretKeySpec\s*\(\s*new\s+byte\s*\[\s*\]\s*\{
P_hardcoded_key ==
  Cat(<<Lit(S_new), Plus(WS), Lit(S_SecretKeySpec), Star(WS), LP, Star(WS)>>
      \o ByteArrayOpen)

\* new\s+SecretKeySpec\s*\(\s*\"[^\"]+\"\.getBytes
P_hardcoded_key_string ==
  Cat(<<Lit(S_new), Plus(WS), Lit(S_SecretKeySpec), Star(WS), LP, Star(WS),
        Quote, Plus(NoQuote), Quote, Lit(S_getBytes)>>)

\* new\s+IvParameterSpec\s*\(\s*new\s+byte\s*\[\s*\]\s*\{
P_static_iv ==
  Cat(<<Lit(S_new), Plus(WS), Lit(S_IvParameterSpec), Star(WS), LP, Star(WS)>>
      \o ByteArrayOpen)

\* new\s+Random\s*\(
P_insecure_random == Cat(<<Lit(S_new), Plus(WS), Lit(S_Random), Star(WS), LP>>)

\* the DES pattern without its trailing-character exclusion
P_des_any_suffix ==
  Cat(<<Lit(S_CipherGetInstance), Star(WS), LP, Star(WS), Quote, Lit(S_DES)>>)

\* Cipher\.getInstance\s*\(\s*\"DES[^e]
P_des_usage ==
  Cat(<<Lit(S_CipherGetInstance), Star(WS), LP, Star(WS), Quote, Lit(S_DES),
        NotSet({"e"})>>)

\* Cipher\.getInstance\s*\(\s*\"[^\"]*NoPadding[^\"]*\"
P_no_padding ==
  Cat(<<Lit(S_CipherGetInstance), Star(WS), LP, Star(WS), Quote,
        Star(NoQuote), Lit(S_NoPadding), Star(NoQuote), Quote>>)

\* PBEKeySpec\s*\([^)]*,\s*(?:[1-9]\d{0,2})\s*[,)]
P_low_pbe_iterations ==
  Cat(<<Lit(S_PBEKeySpec), Star(WS), LP, Star(NotSet({")"})), Lit(<<",">>),
        Star(WS), Set(Digits \ {"0"}), Rep(Dig, 0, 2, TRUE), Star(WS),
        Set({",", ")"})>>)

\* (name, compiled_regex) in registration order; ic: compiled with re.IGNORECASE
_RULES ==
  << [name |-> "ecb_mode", pattern |-> P_ecb_mode, ic |-> TRUE],
     [name |-> "md5_hash", pattern |-> P_md5_hash, ic |-> TRUE],
     [name |-> "sha1_hash", pattern |-> P_sha1_hash, ic |-> TRUE],
     [name |-> "hardcoded_key", pattern |-> P_hardcoded_key, ic |-> TRUE],
     [name |-> "hardcoded_key_string", pattern |-> P_hardcoded_key_string, ic |-> TRUE],
     [name |-> "static_iv", pattern |-> P_static_iv, ic |-> TRUE],
     [name |-> "insecure_random", pattern |-> P_insecure_random, ic |-> TRUE],
     [name |-> "des_usage", pattern |-> P_des_usage, ic |-> TRUE],
     [name |-> "no_padding", pattern |-> P_no_padding, ic |-> TRUE],
     [name |-> "low_pbe_iterations", pattern |-> P_low_pbe_iterations, ic |-> FALSE] >>

\* pattern.search(code) finds a match
Matches(rule, code) == Search(rule.pattern, code, rule.ic)

\* predict looking at the first rule of the list only
PredictFirstOnly(rules, code, k) ==
  IF rules # << >> /\ Matches(rules[1], code) THEN "insecure" ELSE "secure"

\* predict's loop over the rule list from its k-th entry: the first match returns
PredictFrom(rules, code, k) ==
  IF \E j \in k..Len(rules) : Matches(rules[j], code) THEN "insecure" ELSE "secure"

\* the rules of the list that match code, in list order
MatchingRules(rules, code) ==
  LET Hit(rule) == Matches(rule, code)
  IN SelectSeq(rules, Hit)

\* the names of a list of rules
RuleNames(rules) == [j \in 1..Len(rules) |-> rules[j].name]

\* predict_detailed's result for the list of triggered rule names
DetailedResult(triggered) ==
  [label |-> IF triggered # << >> THEN "insecure" ELSE "secure",
   triggered_rules |-> triggered]

\* predict_detailed's loop over the rule list from its k-th entry: each
\* matching rule's name is appended to triggered
DetailedFrom(rules, code, k, triggered) ==
  DetailedResult(triggered \o RuleNames(MatchingRules(SubSeq(rules, k, Len(rules)), code)))

\* predict leaving the loop one rule early
predict_one_short(code) == PredictFrom(SubSeq(_RULES, 1, Len(_RULES) - 1), code, 1)

predict(code) == PredictFrom(_RULES, code, 1)

\* the labels in the reverse of the input order
predict_batch_reversed(snippets) ==
  [i \in 1..Len(snippets) |-> predict(snippets[Len(snippets) + 1 - i])]

\* [predict(s) for s in snippets]
predict_batch(snippets) == [i \in 1..Len(snippets) |-> predict(snippets[i])]

\* predict_detailed leaving the loop at the first match
predict_detailed_first(code) ==
  LET d == DetailedFrom(_RULES, code, 1, << >>)
  IN [d EXCEPT !.triggered_rules = IF @ = << >> THEN << >> ELSE <<Head(@)>>]

predict_detailed(code) == DetailedFrom(_RULES, code, 1, << >>)

\* -------------------------------------------------------------- normalizer

\* /\*.*?\*/ with re.DOTALL
P_block_comment == Cat(<<Lit(<<"/", "*">>), LazyStar(AnyChar), Lit(<<"*", "/">>)>>)

\* //[^\n]*
P_line_comment == Cat(<<Lit(<<"/", "/">>), Star(NotSet({NL}))>>)

\* a block comment pattern that also ends at the end of the text
StripBlockCommentsToEnd(code) ==
  LET m == Sub(P_block_comment, << >>, code, FALSE)
      opens == {i \in 1..Len(m) : LitAt(<<"/", "*">>, m, i, FALSE)}
  IN IF opens = {} THEN m
     ELSE SubSeq(m, 1, (CHOOSE i \in opens : \A j \in opens : i <= j) - 1)

\* re.sub(r"/\*.*?\*/", "", code, flags=re.DOTALL)
StripBlockComments(code) == Sub(P_block_comment, << >>, code, FALSE)

\* re.sub(r"//[^\n]*", "", code)
StripLineComments(code) == Sub(P_line_comment, << >>, code, FALSE)

_remove_comments(code) == StripLineComments(StripBlockComments(code))

\* code.replace("\t", " ")
TabsToSpaces(code) == [k \in 1..Len(code) |-> IF code[k] = TAB THEN SP ELSE code[k]]

\*  {2,}
P_spaces == RepInf(Lit(<<SP>>), 2, TRUE)

\* the line boundaries of str.splitlines, within the characters the model uses
LineBreaks == {NL, CR, "\f"}

\* code.splitlines(): the lines without their line breaks; \r\n is one break
RECURSIVE SplitLines(_)
SplitLines(s) ==
  IF s = << >> THEN << >>
  ELSE LET b == FindChar(s, LineBreaks, 1)
           next == IF b < Len(s) /\ s[b] = CR /\ s[b + 1] = NL THEN b + 2 ELSE b + 1
       IN <<SubSeq(s, 1, b - 1)>> \o SplitLines(SubSeq(s, next, Len(s)))

\* line.strip()
Strip(line) == TrimLeft(TrimRight(line))

\* [line.strip() for line in lines if line.strip()]
RECURSIVE StrippedNonBlank(_)
StrippedNonBlank(lines) ==
  IF lines = << >> THEN << >>
  ELSE (IF Strip(Head(lines)) # << >> THEN <<Strip(Head(lines))>> ELSE << >>)
       \o StrippedNonBlank(Tail(lines))

\* "\n".join(lines)
RECURSIVE JoinNL(_)
JoinNL(lines) ==
  IF lines = << >> THEN << >>
  ELSE IF Len(lines) = 1 THEN Head(lines)
  ELSE Head(lines) \o <<NL>> \o JoinNL(Tail(lines))

\* _normalize_whitespace with the tabs replaced after the spaces are collapsed
_normalize_whitespace_tabs_late(code) ==
  JoinNL(StrippedNonBlank(SplitLines(TabsToSpaces(Sub(P_spaces, <<SP>>, code, FALSE)))))

_normalize_whitespace(code) ==
  JoinNL(StrippedNonBlank(SplitLines(Sub(P_spaces, <<SP>>, TabsToSpaces(code), FALSE))))

T_int == <<"i", "n", "t">>
T_long == <<"l", "o", "n", "g">>
T_byte == <<"b", "y", "t", "e">>
T_short == <<"s", "h", "o", "r", "t">>
T_float == <<"f", "l", "o", "a", "t">>
T_double == <<"d", "o", "u", "b", "l", "e">>
T_boolean == <<"b", "o", "o", "l", "e", "a", "n">>
T_char == <<"c", "h", "a", "r">>
T_String == <<"S", "t", "r", "i", "n", "g">>
T_byteArray == <<"b", "y", "t", "e", "[", "]">>
T_charArray == <<"c", "h", "a", "r", "[", "]">>
T_Object == <<"O", "b", "j", "e", "c", "t">>
T_var == <<"v", "a", "r">>

\* \b(?:int|long|byte|short|float|double|boolean|char|String|byte\[\]|char\[\]|Object|var)\s+
VarPatternHead ==
  Cat(<<WordB,
        Alt(<<Lit(T_int), Lit(T_long), Lit(T_byte), Lit(T_short), Lit(T_float),
              Lit(T_double), Lit(T_boolean), Lit(T_char), Lit(T_String),
              Lit(T_byteArray), Lit(T_charArray), Lit(T_Object), Lit(T_var)>>),
        Plus(WS)>>)

\* ([a-z_]\w*)
VarPatternName == Cat(<<Set(LowerCase \cup {"_"}), Star(WordC)>>)

\* \s*[=;,)]
VarPatternTail == Cat(<<Star(WS), Set({"=", ";", ",", ")"})>>)

\* var_pattern matched at i: <<start of group 1, end of group 1, end of the match>>
\* for the first way the backtracking finds, << >> when there is none
RECURSIVE VarNameEnds(_, _, _, _)
VarNameEnds(s, from, ends, j) ==
  IF j > Len(ends) THEN << >>
  ELSE LET tail == MatchEnds(VarPatternTail, s, ends[j], TRUE)
       IN IF tail # << >> THEN <<from, ends[j], Head(tail)>>
          ELSE VarNameEnds(s, from, ends, j + 1)

RECURSIVE VarHeadEnds(_, _, _)
VarHeadEnds(s, ends, j) ==
  IF j > Len(ends) THEN << >>
  ELSE LET m == VarNameEnds(s, ends[j], MatchEnds(VarPatternName, s, ends[j], TRUE), 1)
       IN IF m # << >> THEN m ELSE VarHeadEnds(s, ends, j + 1)

VarPatternAt(s, i) == VarHeadEnds(s, MatchEnds(VarPatternHead, s, i, TRUE), 1)

_protected ==
  { <<"a", "r", "g", "s">>,
    <<"m", "a", "i", "n">>,
    <<"t", "h", "i", "s">>,
    <<"s", "u", "p", "e", "r">>,
    <<"n", "u", "l", "l">>,
    <<"t", "r", "u", "e">>,
    <<"f", "a", "l", "s", "e">>,
    <<"S", "y", "s", "t", "e", "m">>,
    <<"o", "u", "t">>,
    <<"p", "r", "i", "n", "t", "l", "n">>,
    <<"S", "t", "r", "i", "n", "g">>,
    <<"I", "n", "t", "e", "g", "e", "r">>,
    <<"k", "e", "y">> }

\* the loop over var_pattern.finditer(code) from pos: the names collected so far
RECURSIVE CollectFrom(_, _, _)
CollectFrom(s, pos, var_names) ==
  IF pos > Len(s) + 1 THEN var_names
  ELSE LET m == VarPatternAt(s, pos)
       IN IF m = << >> THEN CollectFrom(s, pos + 1, var_names)
          ELSE LET name == SubSeq(s, m[1], m[2] - 1)
               IN CollectFrom(s, m[3],
                              IF name \notin _protected /\ name \notin Range(var_names)
                              THEN Append(var_names, name) ELSE var_names)

CollectVarNames(code) == CollectFrom(code, 1, << >>)

DigitChars == <<"0", "1", "2", "3", "4", "5", "6", "7", "8", "9">>

\* str(n)
RECURSIVE Str(_)
Str(n) == IF n < 10 THEN <<DigitChars[n + 1]>> ELSE Str(n \div 10) \o <<DigitChars[(n % 10) + 1]>>

\* f"VAR{idx}"
VarToken(idx) == <<"V", "A", "R">> \o Str(idx)

\* the loop over enumerate(var_names) from the k-th name (idx = k - 1)
RECURSIVE RenameFrom(_, _, _)
RenameFrom(s, var_names, k) ==
  IF k > Len(var_names) THEN s
  ELSE RenameFrom(Sub(Cat(<<WordB, Lit(var_names[k]), WordB>>), VarToken(k - 1), s, FALSE),
                  var_names, k + 1)

_normalize_variables(code) == RenameFrom(code, CollectVarNames(code), 1)

\* normalize with whitespace normalization done before comment stripping
normalize_whitespace_first(code, comments, whitespace, variables) ==
  LET c1 == IF whitespace THEN _normalize_whitespace(code) ELSE code
      c2 == IF comments THEN _remove_comments(c1) ELSE c1
  IN IF variables THEN _normalize_variables(c2) ELSE c2

normalize(code, remove_comments, normalize_whitespace, normalize_variables) ==
  LET c1 == IF remove_comments THEN _remove_comments(code) ELSE code
      c2 == IF normalize_whitespace THEN _normalize_whitespace(c1) ELSE c1
  IN IF normalize_variables THEN _normalize_variables(c2) ELSE c2

\* -------------------------------------------------------- feature extractor

\* the API names of the call patterns, in registration order
ApiNames ==
  << <<"C", "i", "p", "h", "e", "r", ".", "g", "e", "t", "I", "n", "s", "t", "a",
        "n", "c", "e">>,
     <<"M", "e", "s", "s", "a", "g", "e", "D", "i", "g", "e", "s", "t", ".", "g",
        "e", "t", "I", "n", "s", "t", "a", "n", "c", "e">>,
     <<"S", "e", "c", "r", "e", "t", "K", "e", "y", "S", "p", "e", "c">>,
     <<"K", "e", "y", "G", "e", "n", "e", "r", "a", "t", "o", "r", ".", "g", "e",
        "t", "I", "n", "s", "t", "a", "n", "c", "e">>,
     <<"S", "e", "c", "u", "r", "e", "R", "a", "n", "d", "o", "m">>,
     <<"K", "e", "y", "P", "a", "i", "r", "G", "e", "n", "e", "r", "a", "t", "o",
        "r", ".", "g", "e", "t", "I", "n", "s", "t", "a", "n", "c", "e">>,
     <<"M", "a", "c", ".", "g", "e", "t", "I", "n", "s", "t", "a", "n", "c", "e">>,
     <<"S", "i", "g", "n", "a", "t", "u", "r", "e", ".", "g", "e", "t", "I", "n",
        "s", "t", "a", "n", "c", "e">>,
     <<"K", "e", "y", "S", "t", "o", "r", "e", ".", "g", "e", "t", "I", "n", "s",
        "t", "a", "n", "c", "e">>,
     <<"P", "B", "E", "K", "e", "y", "S", "p", "e", "c">>,
     <<"P", "B", "E", "P", "a", "r", "a", "m", "e", "t", "e", "r", "S", "p", "e",
        "c">>,
     <<"I", "v", "P", "a", "r", "a", "m", "e", "t", "e", "r", "S", "p", "e", "c">>,
     <<"G", "C", "M", "P", "a", "r", "a", "m", "e", "t", "e", "r", "S", "p", "e",
        "c">>,
     <<"T", "r", "u", "s", "t", "M", "a", "n", "a", "g", "e", "r", "F", "a", "c",
        "t", "o", "r", "y", ".", "g", "e", "t", "I", "n", "s", "t", "a", "n", "c",
        "e">>,
     <<"S", "S", "L", "C", "o", "n", "t", "e", "x", "t", ".", "g", "e", "t", "I",
        "n", "s", "t", "a", "n", "c", "e">> >>

\* name\s*\(   (the dot of a name is the pattern's \.)
ApiCallPattern(name) == Cat(<<Lit(name), Star(WS), LP>>)

_API_CALL_PATTERNS == [k \in 1..Len(ApiNames) |-> ApiCallPattern(ApiNames[k])]

_CRYPTO_KEYWORDS ==
  << <<"A", "E", "S">>,
     <<"D", "E", "S">>,
     <<"D", "E", "S", "e", "d", "e">>,
     <<"3", "D", "E", "S">>,
     <<"B", "l", "o", "w", "f", "i", "s", "h">>,
     <<"R", "C", "4">>,
     <<"R", "C", "2">>,
     <<"C", "h", "a", "C", "h", "a", "2", "0">>,
     <<"E", "C", "B">>,
     <<"C", "B", "C">>,
     <<"C", "T", "R">>,
     <<"G", "C", "M">>,
     <<"O", "F", "B">>,
     <<"C", "F", "B">>,
     <<"P", "K", "C", "S", "5", "P", "a", "d", "d", "i", "n", "g">>,
     <<"N", "o", "P", "a", "d", "d", "i", "n", "g">>,
     <<"P", "K", "C", "S", "7", "P", "a", "d", "d", "i", "n", "g">>,
     <<"M", "D", "5">>,
     <<"S", "H", "A", "-", "1">>,
     <<"S", "H", "A", "1">>,
     <<"S", "H", "A", "-", "2", "5", "6">>,
     <<"S", "H", "A", "-", "5", "1", "2">>,
     <<"S", "H", "A", "2", "5", "6">>,
     <<"S", "H", "A", "5", "1", "2">>,
     <<"R", "S", "A">>,
     <<"D", "S", "A">>,
     <<"E", "C", "D", "S", "A">>,
     <<"E", "C", "D", "H">>,
     <<"P", "B", "K", "D", "F", "2">>,
     <<"P", "B", "E", "W", "i", "t", "h">>,
     <<"H", "m", "a", "c", "S", "H", "A">>,
     <<"S", "e", "c", "u", "r", "e", "R", "a", "n", "d", "o", "m">>,
     <<"j", "a", "v", "a", ".", "u", "t", "i", "l", ".", "R", "a", "n", "d", "o",
        "m">>,
     <<"T", "L", "S">>,
     <<"S", "S", "L">>,
     <<"T", "L", "S", "v", "1">>,
     <<"T", "L", "S", "v", "1", ".", "2">>,
     <<"T", "L", "S", "v", "1", ".", "3">> >>

\* [A-Za-z0-9/+=]
Base64Chars == LowerCase \cup UpperCase \cup Digits \cup {"/", "+", "="}

\* [0-9a-fA-F]
HexChars == Digits \cup {"a", "b", "c", "d", "e", "f", "A", "B", "C", "D", "E", "F"}

\* new\s+byte\s*\[\s*\]\s*\{[^}]+\}
P_byte_array_literal == Cat(ByteArrayOpen \o <<Plus(NotSet({"}"})), Lit(<<"}">>)>>)

\* \"[A-Za-z0-9/+=]{8,}\"\.getBytes
P_string_get_bytes ==
  Cat(<<Quote, RepInf(Set(Base64Chars), 8, TRUE), Quote, Lit(S_getBytes)>>)

\* \"[0-9a-fA-F]{16,}\"
P_hex_string == Cat(<<Quote, RepInf(Set(HexChars), 16, TRUE), Quote>>)

_HARDCODED_PATTERNS == <<P_byte_array_literal, P_string_get_bytes, P_hex_string>>

\* the loop below over patterns[lo..hi]: the matches of the lower half of the range, then
\* those of the upper half, which is the order the loop extends the list in
RECURSIVE ExtendRange(_, _, _, _)
ExtendRange(patterns, code, lo, hi) ==
  IF lo > hi THEN << >>
  ELSE IF lo = hi THEN FindAll(patterns[lo], code, FALSE)
  ELSE LET mid == (lo + hi) \div 2
       IN ExtendRange(patterns, code, lo, mid) \o ExtendRange(patterns, code, mid + 1, hi)

\* for pattern in patterns: matches.extend(re.findall(pattern, code)), from patterns[k] on
ExtendFrom(patterns, code, k) == ExtendRange(patterns, code, k, Len(patterns))

\* the entries of a list, each kept where it first stands
RECURSIVE Distinct(_)
Distinct(list) ==
  IF list = << >> THEN << >>
  ELSE LET rest == Distinct(SubSeq(list, 1, Len(list) - 1))
       IN IF \E k \in DOMAIN rest : rest[k] = list[Len(list)]
          THEN rest ELSE Append(rest, list[Len(list)])

\* the API calls with repeated texts recorded once
_extract_api_calls_distinct(code) == Distinct(ExtendFrom(_API_CALL_PATTERNS, code, 1))

_extract_api_calls(code) == ExtendFrom(_API_CALL_PATTERNS, code, 1)

\* no change of letter case
UpperAsWritten(s) == s

\* str.upper on the characters the model uses
UpperChar(c) == IF c \in LowerCase THEN CHOOSE u \in UpperCase : FoldTable[u] = c ELSE c

Upper(s) == [k \in 1..Len(s) |-> UpperChar(s[k])]

\* sub in s
Contains(sub, s) == \E i \in 1..(Len(s) - Len(sub) + 1) : SubSeq(s, i, i + Len(sub) - 1) = sub

\* for kw in keywords: if kw.upper() in code_upper: found.append(kw)
KeywordsIn(keywords, code_upper) ==
  LET Present(kw) == Contains(Upper(kw), code_upper)
  IN SelectSeq(keywords, Present)

_extract_crypto_keywords(code) == KeywordsIn(_CRYPTO_KEYWORDS, Upper(code))

\* ^\s*import\s+   (re.MULTILINE)
P_import == Cat(<<LineStart, Star(WS), Lit(<<"i", "m", "p", "o", "r", "t">>), Plus(WS)>>)

\* \b(?:class|interface|enum)\s+\w+
P_class ==
  Cat(<<WordB,
        Alt(<<Lit(<<"c", "l", "a", "s", "s">>),
              Lit(<<"i", "n", "t", "e", "r", "f", "a", "c", "e">>),
              Lit(<<"e", "n", "u", "m">>)>>),
        Plus(WS), Plus(WordC)>>)

\* (?:public|private|protected|static|\s)+[\w<>\[\]]+\s+\w+\s*\(
P_method ==
  Cat(<<Plus(Alt(<<Lit(<<"p", "u", "b", "l", "i", "c">>),
                   Lit(<<"p", "r", "i", "v", "a", "t", "e">>),
                   Lit(<<"p", "r", "o", "t", "e", "c", "t", "e", "d">>),
                   Lit(<<"s", "t", "a", "t", "i", "c">>),
                   WS>>)),
        Plus(Set(WordChars \cup {"<", ">", "[", "]"})), Plus(WS), Plus(WordC),
        Star(WS), LP>>)

\* the counts with every zero count left out of the result
_extract_structural_tokens_sparse(code) ==
  LET full == [import_count |-> Len(FindAll(P_import, code, FALSE)),
               class_count |-> Len(FindAll(P_class, code, FALSE)),
               method_count |-> Len(FindAll(P_method, code, FALSE))]
  IN [k \in {f \in DOMAIN full : full[f] > 0} |-> full[k]]

_extract_structural_tokens(code) ==
  [import_count |-> Len(FindAll(P_import, code, FALSE)),
   class_count |-> Len(FindAll(P_class, code, FALSE)),
   method_count |-> Len(FindAll(P_method, code, FALSE))]

_extract_hardcoded_secrets(code) == ExtendFrom(_HARDCODED_PATTERNS, code, 1)

extract_features(code) ==
  [api_calls |-> _extract_api_calls(code),
   crypto_keywords |-> _extract_crypto_keywords(code),
   structural_tokens |-> _extract_structural_tokens(code),
   hardcoded_secrets |-> _extract_hardcoded_secrets(code)]

\* ---------------------------------------------------------------- classifier

\* What SimpleClassifier's methods do to the _is_trained flag.  The pipeline is
\* scikit-learn's: whether its fit or predict returns or raises is an input
\* (fit_ok, pipeline_ok).  Each result holds the exception raised ("none": the
\* call returned), the flag afterwards, and whether the pipeline's fit ran.

\* train with the flag set before the lengths are compared
SimpleClassifier_train_flag_first(trained, codes_len, labels_len, fit_ok) ==
  IF codes_len # labels_len
  THEN [raised |-> "ValueError", trained |-> TRUE, fit |-> FALSE]
  ELSE [raised |-> IF fit_ok THEN "none" ELSE "PipelineError", trained |-> TRUE,
        fit |-> TRUE]

\* train(codes, labels) on lists of codes_len and labels_len entries
SimpleClassifier_train(trained, codes_len, labels_len, fit_ok) ==
  IF codes_len # labels_len
  THEN [raised |-> "ValueError", trained |-> trained, fit |-> FALSE]
  ELSE IF fit_ok
  THEN [raised |-> "none", trained |-> TRUE, fit |-> TRUE]
  ELSE [raised |-> "PipelineError", trained |-> trained, fit |-> TRUE]

\* predict(codes)
SimpleClassifier_predict(trained, pipeline_ok) ==
  IF ~trained
  THEN [raised |-> "RuntimeError", trained |-> trained, fit |-> FALSE]
  ELSE [raised |-> IF pipeline_ok THEN "none" ELSE "PipelineError", trained |-> trained,
        fit |-> FALSE]

\* predict_proba(codes)
SimpleClassifier_predict_proba(trained, pipeline_ok) ==
  IF ~trained
  THEN [raised |-> "RuntimeError", trained |-> trained, fit |-> FALSE]
  ELSE [raised |-> IF pipeline_ok THEN "none" ELSE "PipelineError", trained |-> trained,
        fit |-> FALSE]

\* the log entry of a call: the method, whether the two lists of a train call
\* differed in length, the flag before, and the call's result
Entry(op, mismatch, before, result) ==
  [op |-> op, mismatch |-> mismatch, before |-> before, after |-> result.trained,
   raised |-> result.raised, fit |-> result.fit]

\* ------------------------------------------------------------------ inputs

\* most whitespace characters put where a pattern allows \s*
MaxPad == 1
\* most statements put in front of the statement a snippet ends with
MaxCtx == 2

RECURSIVE Repeat(_, _)
Repeat(c, n) == IF n = 0 THEN << >> ELSE <<c>> \o Repeat(c, n - 1)

Pads == {Repeat(SP, n) : n \in 0..MaxPad}

AlgNames ==
  { <<"D", "E", "S">>,
    <<"d", "e", "s">>,
    <<"D", "E", "S", "e", "d", "e">>,
    <<"D", "E", "S", "E", "D", "E">>,
    <<"D", "E", "S", "X">>,
    <<"D", "E", "S", "/", "C", "B", "C", "/", "P", "K", "C", "S", "5", "P", "a", "d",
      "d", "i", "n", "g">>,
    <<"A", "E", "S", "/", "E", "C", "B", "/", "N", "o", "P", "a", "d", "d", "i", "n",
      "g">>,
    <<"A", "E", "S", "/", "G", "C", "M", "/", "P", "K", "C", "S", "5", "P", "a", "d",
      "d", "i", "n", "g">> }

DigestNames ==
  { <<"M", "D", "5">>,
    <<"S", "H", "A", "-", "1">>,
    <<"S", "H", "A", "1">>,
    <<"S", "H", "A", "-", "2", "5", "6">> }

CipherCall(pad, alg) ==
  S_CipherGetInstance \o pad \o <<"(">> \o pad \o <<DQ>> \o alg \o <<DQ, ")", ";">>

DigestCall(alg) ==
  S_MessageDigestGetInstance \o <<"(", DQ>> \o alg \o <<DQ, ")", ";">>

KeyStmts ==
  { <<"n", "e", "w", " ", "S", "e", "c", "r", "e", "t", "K", "e", "y", "S", "p", "e",
      "c", "(", "n", "e", "w", " ", "b", "y", "t", "e", "[", "]", " ", "{", "1", "}", ",",
      " ", "\"", "A", "E", "S", "\"", ")", ";">>,
    <<"n", "e", "w", " ", "S", "e", "c", "r", "e", "t", "K", "e", "y", "S", "p", "e",
      "c", "(", "\"", "s", "e", "c", "r", "e", "t", "\"", ".", "g", "e", "t", "B", "y",
      "t", "e", "s", "(", ")", ",", " ", "\"", "A", "E", "S", "\"", ")", ";">>,
    <<"n", "e", "w", " ", "S", "e", "c", "r", "e", "t", "K", "e", "y", "S", "p", "e",
      "c", "(", "k", "e", "y", "B", "y", "t", "e", "s", ",", " ", "\"", "A", "E", "S",
      "\"", ")", ";">>,
    <<"n", "e", "w", " ", "I", "v", "P", "a", "r", "a", "m", "e", "t", "e", "r", "S",
      "p", "e", "c", "(", "n", "e", "w", " ", "b", "y", "t", "e", "[", "]", " ", "{", "0",
      "}", ")", ";">>,
    <<"n", "e", "w", " ", "I", "v", "P", "a", "r", "a", "m", "e", "t", "e", "r", "S",
      "p", "e", "c", "(", "i", "v", ")", ";">>,
    <<"n", "e", "w", " ", "R", "a", "n", "d", "o", "m", "(", ")", ";">>,
    <<"n", "e", "w", " ", "S", "e", "c", "u", "r", "e", "R", "a", "n", "d", "o", "m",
      "(", ")", ";">> }

IterationCounts ==
  { <<"0">>,
    <<"5">>,
    <<"9", "9", "9">>,
    <<"1", "0", "0", "0">>,
    <<"6", "5", "5", "3", "6">> }

KeyLengths ==
  { <<>>,
    <<",", " ", "2", "5", "6">> }

S_PbeHead == <<"n", "e", "w", " ", "P", "B", "E", "K", "e", "y", "S", "p", "e", "c",
  "(", "p", "w", ",", " ", "s", "a", "l", "t", ",", " ">>

PbeCall(count, keylen) == S_PbeHead \o count \o keylen \o <<")", ";">>

S_PbeNoCount == <<"n", "e", "w", " ", "P", "B", "E", "K", "e", "y", "S", "p", "e", "c",
  "(", "p", "w", ")", ";">>

\* the statements a snippet can end with; << >> is no statement
MainStmts ==
  {<< >>, S_PbeNoCount}
  \cup {CipherCall(pad, alg) : pad \in Pads, alg \in AlgNames}
  \cup {DigestCall(alg) : alg \in DigestNames}
  \cup KeyStmts
  \cup {PbeCall(n, k) : n \in IterationCounts, k \in KeyLengths}

\* the statements put in front of it
CtxStmts ==
  { <<"n", "e", "w", " ", "R", "a", "n", "d", "o", "m", "(", ")", ";">>,
    <<"i", "n", "t", " ", "n", " ", "=", " ", "5", ";">> }

RECURSIVE JoinLines(_)
JoinLines(stmts) ==
  IF stmts = << >> THEN << >> ELSE Head(stmts) \o <<NL>> \o JoinLines(Tail(stmts))

SeqsUpTo(S, n) == UNION {[1..m -> S] : m \in 0..n}

RuleSnippets ==
  {JoinLines(ctx) \o main : ctx \in SeqsUpTo(CtxStmts, MaxCtx), main \in MainStmts}

RECURSIVE Flatten(_)
Flatten(pieces) == IF pieces = << >> THEN << >> ELSE Head(pieces) \o Flatten(Tail(pieces))

\* most pieces a comment snippet is put together from
MaxPieces == 6

CommentPieces == {<<"/">>, <<"*">>, <<"/", "*">>, <<"*", "/">>, <<"a">>, <<NL>>}

CommentSnippets == {Flatten(ps) : ps \in SeqsUpTo(CommentPieces, MaxPieces)}

\* most characters of a whitespace snippet
MaxWsLen == 6

WsSnippets == SeqsUpTo({SP, TAB, NL, CR, "a"}, MaxWsLen)

\* most statements of a declaration snippet
MaxVarStmts == 3

VarStmts ==
  { <<"i", "n", "t", " ", "x", ";">>,
    <<"i", "n", "t", " ", "V", "A", "R", "0", ";">>,
    <<"i", "n", "t", " ", "r", "u", "n", ";">>,
    <<"S", "t", "r", "i", "n", "g", " ", "F", "o", "o", ";">>,
    <<"S", "t", "r", "i", "n", "g", " ", "k", "e", "y", ";">>,
    <<"r", "u", "n", "(", ")", ";">>,
    <<"c", "l", "a", "s", "s", " ", "F", "o", "o", "{", "}">>,
    <<"x", "=", "k", "e", "y", ";">>,
    <<"p", "r", "i", "n", "t", "l", "n", "(", "x", "x", ")", ";">> }

VarSnippets == {Flatten(ss) : ss \in SeqsUpTo(VarStmts, MaxVarStmts)}

\* most statements put in front of the statement a feature snippet ends with
MaxFeatCtx == 1

\* the statements a feature snippet can end with
FeatStmts ==
  { <<"n", "e", "w", " ", "S", "e", "c", "r", "e", "t", "K", "e", "y", "S", "p", "e",
      "c", "(", "n", "e", "w", " ", "b", "y", "t", "e", "[", "]", " ", "{", "0", "x",
      "0", "1", ",", "0", "x", "0", "2", "}", ",", " ", "\"", "A", "E", "S", "\"", ")",
      ";">>,
    <<"n", "e", "w", " ", "S", "e", "c", "r", "e", "t", "K", "e", "y", "S", "p", "e",
      "c", "(", "n", "e", "w", " ", "b", "y", "t", "e", "[", "]", "{", "1", "}", ",",
      " ", "\"", "a", "e", "s", "\"", ")", ";">>,
    <<"n", "e", "w", " ", "j", "a", "v", "a", "x", ".", "c", "r", "y", "p", "t", "o",
      ".", "s", "p", "e", "c", ".", "S", "e", "c", "r", "e", "t", "K", "e", "y", "S",
      "p", "e", "c", "(", "n", "e", "w", " ", "b", "y", "t", "e", "[", "]", " ", "{",
      "1", "}", ",", " ", "\"", "A", "E", "S", "\"", ")", ";">>,
    <<"n", "e", "w", " ", "S", "e", "c", "r", "e", "t", "K", "e", "y", "S", "p", "e",
      "c", "(", "n", "e", "w", " ", "b", "y", "t", "e", "[", "]", " ", "{", "'", "}",
      "'", ",", " ", "1", "}", ",", " ", "\"", "A", "E", "S", "\"", ")", ";">>,
    <<"n", "e", "w", " ", "S", "e", "c", "r", "e", "t", "K", "e", "y", "S", "p", "e",
      "c", "(", "k", "e", "y", "B", "y", "t", "e", "s", ",", " ", "\"", "A", "E", "S",
      "\"", ")", ";">>,
    <<"n", "e", "w", " ", "S", "e", "c", "r", "e", "t", "K", "e", "y", "S", "p", "e",
      "c", "(", "\"", "c", "2", "V", "j", "c", "m", "V", "0", "a", "2", "V", "5", "\"",
      ".", "g", "e", "t", "B", "y", "t", "e", "s", "(", ")", ",", " ", "\"", "A", "E",
      "S", "\"", ")", ";">>,
    <<"C", "i", "p", "h", "e", "r", ".", "g", "e", "t", "I", "n", "s", "t", "a", "n",
      "c", "e", "(", "\"", "A", "E", "S", "/", "C", "B", "C", "/", "P", "K", "C", "S",
      "5", "P", "a", "d", "d", "i", "n", "g", "\"", ")", ";">>,
    <<"M", "e", "s", "s", "a", "g", "e", "D", "i", "g", "e", "s", "t", ".", "g", "e",
      "t", "I", "n", "s", "t", "a", "n", "c", "e", " ", "(", "\"", "s", "h", "a", "-",
      "2", "5", "6", "\"", ")", ";">>,
    <<"b", "y", "t", "e", "[", "]", " ", "h", " ", "=", " ", "h", "e", "x", "(",
      "\"", "0", "0", "1", "1", "2", "2", "3", "3", "4", "4", "5", "5", "6", "6", "7",
      "7", "8", "8", "9", "9", "a", "a", "b", "b", "c", "c", "d", "d", "e", "e", "f",
      "f", "\"", ")", ";">>,
    <<"S", "S", "L", "C", "o", "n", "t", "e", "x", "t", ".", "g", "e", "t", "I", "n",
      "s", "t", "a", "n", "c", "e", "(", "\"", "T", "L", "S", "v", "1", ".", "2", "\"",
      ")", ";">>,
    <<"i", "m", "p", "o", "r", "t", " ", "j", "a", "v", "a", ".", "u", "t", "i", "l",
      ".", "R", "a", "n", "d", "o", "m", ";", "\n">>,
    <<"p", "u", "b", "l", "i", "c", " ", "c", "l", "a", "s", "s", " ", "F", "o", "o",
      " ", "{", "\n">>,
    <<" ", "p", "u", "b", "l", "i", "c", " ", "s", "t", "a", "t", "i", "c", " ", "v",
      "o", "i", "d", " ", "m", "a", "i", "n", "(", "S", "t", "r", "i", "n", "g", "[",
      "]", " ", "a", ")", " ", "{", "\n">>,
    <<"i", "n", "t", " ", "n", " ", "=", " ", "5", ";">> }

\* the statements put in front of it
FeatCtxStmts ==
  { <<"i", "m", "p", "o", "r", "t", " ", "j", "a", "v", "a", ".", "u", "t", "i", "l",
      ".", "R", "a", "n", "d", "o", "m", ";", "\n">>,
    <<"p", "u", "b", "l", "i", "c", " ", "c", "l", "a", "s", "s", " ", "F", "o", "o",
      " ", "{", "\n">>,
    <<"C", "i", "p", "h", "e", "r", ".", "g", "e", "t", "I", "n", "s", "t", "a", "n",
      "c", "e", "(", "\"", "A", "E", "S", "/", "C", "B", "C", "/", "P", "K", "C", "S",
      "5", "P", "a", "d", "d", "i", "n", "g", "\"", ")", ";">> }

FeatSnippets ==
  {Flatten(ctx) \o main : ctx \in SeqsUpTo(FeatCtxStmts, MaxFeatCtx),
                          main \in FeatStmts \cup {<< >>}}

\* most pieces a normalize snippet is put together from
MaxNormPieces == 3

NormPieces ==
  { <<"i", "n", "t", " ", "x", ";">>,
    <<"/", "/", " ", "i", "n", "t", " ", "a", ";", "\n">>,
    <<"a", " ", "/", "*", " ", "c", " ", "*", "/", " ", "b">>,
    <<" ">>,
    <<"\n">> }

NormSnippets == {Flatten(ps) : ps \in SeqsUpTo(NormPieces, MaxNormPieces)}

\* most snippets of a batch
MaxBatch == 3

BatchItems ==
  { <<"n", "e", "w", " ", "R", "a", "n", "d", "o", "m", "(", ")", ";">>,
    <<"n", "e", "w", " ", "S", "e", "c", "u", "r", "e", "R", "a", "n", "d", "o", "m",
      "(", ")", ";">>,
    <<"C", "i", "p", "h", "e", "r", ".", "g", "e", "t", "I", "n", "s", "t", "a", "n",
      "c", "e", "(", "\"", "A", "E", "S", "/", "E", "C", "B", "/", "N", "o", "P", "a",
      "d", "d", "i", "n", "g", "\"", ")", ";">>,
    <<"i", "n", "t", " ", "n", " ", "=", " ", "5", ";">> }

Batches == SeqsUpTo(BatchItems, MaxBatch)

\* most entries of a list given to train
MaxListLen == 1
\* most calls made on one classifier
MaxCalls == 4

\* most calls one thread makes
MaxThreadCalls == 1

\* the snippets the threads pass
ThreadSnippets ==
  { <<"n", "e", "w", " ", "R", "a", "n", "d", "o", "m", "(", ")", ";", "/", "/",
      "a">>,
    <<"C", "i", "p", "h", "e", "r", ".", "g", "e", "t", "I", "n", "s", "t", "a", "n",
      "c", "e", "(", "\"", "A", "E", "S", "/", "E", "C", "B", "/", "N", "o", "P", "a",
      "d", "d", "i", "n", "g", "\"", ")", ";">> }

\* the arguments a thread can pass to each operation
ThreadArgs(op) ==
  CASE op = "predict_batch" -> {<< >>} \cup {<<a, b>> : a, b \in ThreadSnippets}
    [] op = "normalize" ->
         {[code |-> a, flags |-> f] :
            a \in ThreadSnippets, f \in {<<TRUE, TRUE, FALSE>>, <<FALSE, TRUE, TRUE>>}}
    [] OTHER -> ThreadSnippets

Operations ==
  {"predict", "predict_detailed", "predict_batch", "extract_features", "normalize"}

\* the rule list reordered: position k holds the rule registered at p[k]
Permuted(p) == [k \in 1..Len(_RULES) |-> _RULES[p[k]]]

RuleIds == 1..Len(_RULES)

SwapAt(i) == [k \in RuleIds |-> IF k = i THEN i + 1 ELSE IF k = i + 1 THEN i ELSE k]
Reversed == [k \in RuleIds |-> Len(_RULES) + 1 - k]
Rotated == [k \in RuleIds |-> (k % Len(_RULES)) + 1]

\* the reorderings tried: each swap of two neighbours, the reversal, a rotation
Perms == {SwapAt(i) : i \in 1..(Len(_RULES) - 1)} \cup {Reversed, Rotated}

\* ------------------------------------------------------------------- state

VARIABLES
  code,          \* the snippet given to the operations
  label,         \* what predict(code) returned, "none" before the call
  detailed,      \* what predict_detailed(code) returned, NoResult before the call
  perm,          \* the reordering of the rule list the two below were run under
  permLabel,     \* predict's result under the reordered list
  permDetailed,  \* predict_detailed's result under the reordered list
  text,          \* the normalizer's text: code, then what each call returned
  prev,          \* the argument of the normalizer's last call
  mid,           \* _remove_comments' code after its first re.sub
  passes,        \* the normalizer calls made so far, each on the result of the last
  features,      \* what extract_features(code) returned, NoFeatures before the call
  snippets,      \* the list given to predict_batch
  labels,        \* what predict_batch(snippets) returned, NoLabels before the call
  toggles,       \* normalize's three flags as called, << >> before the call
  normalized,    \* what normalize(code, ...) returned
  _is_trained,   \* SimpleClassifier._is_trained
  log,           \* the SimpleClassifier calls made so far, with how each ended
  catalogs,      \* the module-level lists _RULES, _API_CALL_PATTERNS, ...
  threads        \* per thread: the call it is in, with the call's local variables

vars == <<code, label, detailed, perm, permLabel, permDetailed, text, prev, mid, passes,
          features, snippets, labels, toggles, normalized, _is_trained, log,
          catalogs, threads>>

NoResult == [label |-> "none", triggered_rules |-> << >>]

ruleVars == <<label, detailed, perm, permLabel, permDetailed>>

normVars == <<text, prev, mid, passes>>

featVars == <<features>>

batchVars == <<snippets, labels>>

pipeVars == <<toggles, normalized>>

clfVars == <<_is_trained, log>>

concVars == <<catalogs, threads>>

extVars == <<featVars, batchVars, pipeVars, clfVars, concVars>>

\* the module-level lists as the two modules define them at import
Catalogs ==
  [rules |-> _RULES, api_call_patterns |-> _API_CALL_PATTERNS,
   crypto_keywords |-> _CRYPTO_KEYWORDS, hardcoded_patterns |-> _HARDCODED_PATTERNS]

\* the threads that call into the two modules
Threads == {"t1", "t2"}


NoFeatures ==
  [api_calls |-> <<"none">>, crypto_keywords |-> << >>,
   structural_tokens |-> [import_count |-> 0, class_count |-> 0, method_count |-> 0],
   hardcoded_secrets |-> << >>]

NoLabels == <<"none">>

\* most calls that feed a normalizer result back into the normalizer
MaxPasses == 2

InitRuleVars ==
  /\ label = "none"
  /\ detailed = NoResult
  /\ perm = << >>
  /\ permLabel = "none"
  /\ permDetailed = NoResult

InitNormVars ==
  /\ text = code
  /\ prev = << >>
  /\ mid = << >>
  /\ passes = 0

InitResultVars ==
  /\ features = NoFeatures
  /\ labels = NoLabels
  /\ toggles = << >>
  /\ normalized = << >>
  /\ _is_trained = FALSE
  /\ log = << >>
  /\ catalogs = Catalogs
  /\ threads = [t \in Threads |-> [status |-> "idle", calls |-> 0]]

InitExtVars == snippets = << >> /\ InitResultVars

\* predict(code)
Predict ==
  /\ label = "none"
  /\ label' = predict(code)
  /\ UNCHANGED <<code, detailed, perm, permLabel, permDetailed, normVars, extVars>>

\* predict_detailed(code)
PredictDetailed ==
  /\ detailed = NoResult
  /\ detailed' = predict_detailed(code)
  /\ UNCHANGED <<code, label, perm, permLabel, permDetailed, normVars, extVars>>

\* predict(code) and predict_detailed(code) with the rule list reordered
PredictPermuted ==
  /\ label # "none" /\ detailed # NoResult /\ perm = << >>
  /\ \E p \in Perms :
       /\ perm' = p
       /\ permLabel' = PredictFrom(Permuted(p), code, 1)
       /\ permDetailed' = DetailedFrom(Permuted(p), code, 1, << >>)
  /\ UNCHANGED <<code, label, detailed, normVars, extVars>>

\* text = _remove_comments(text)
RemoveComments ==
  /\ passes < MaxPasses
  /\ mid' = StripBlockComments(text)
  /\ text' = StripLineComments(mid')
  /\ prev' = text
  /\ passes' = passes + 1
  /\ UNCHANGED <<code, ruleVars, extVars>>

\* text = _normalize_whitespace(text)
NormalizeWhitespace ==
  /\ passes < MaxPasses
  /\ text' = _normalize_whitespace(text)
  /\ prev' = text
  /\ passes' = passes + 1
  /\ UNCHANGED <<code, mid, ruleVars, extVars>>

\* text = _normalize_variables(text)
NormalizeVariables ==
  /\ passes < MaxPasses
  /\ text' = _normalize_variables(text)
  /\ prev' = text
  /\ passes' = passes + 1
  /\ UNCHANGED <<code, mid, ruleVars, extVars>>

\* the rule engine on snippets of crypto API calls
InitRules == code \in RuleSnippets /\ InitRuleVars /\ InitNormVars /\ InitExtVars

NextRules == Predict \/ PredictDetailed \/ PredictPermuted

SpecRules == InitRules /\ [][NextRules]_vars

\* comment stripping on snippets of comment markers
InitComments == code \in CommentSnippets /\ InitRuleVars /\ InitNormVars /\ InitExtVars

NextComments == RemoveComments

SpecComments == InitComments /\ [][NextComments]_vars

\* whitespace normalization on snippets of blanks and line breaks
InitWs == code \in WsSnippets /\ InitRuleVars /\ InitNormVars /\ InitExtVars

NextWs == NormalizeWhitespace

SpecWs == InitWs /\ [][NextWs]_vars

\* identifier anonymization on snippets of declarations
InitVars == code \in VarSnippets /\ InitRuleVars /\ InitNormVars /\ InitExtVars

NextVars == NormalizeVariables

SpecVars == InitVars /\ [][NextVars]_vars

\* features = extract_features(code)
ExtractFeatures ==
  /\ features = NoFeatures
  /\ features' = extract_features(code)
  /\ UNCHANGED <<code, ruleVars, normVars, batchVars, pipeVars, clfVars, concVars>>

\* the extractor and the rule engine on snippets of key, cipher and class statements
InitFeatures == code \in FeatSnippets /\ InitRuleVars /\ InitNormVars /\ InitExtVars

NextFeatures == ExtractFeatures \/ Predict \/ PredictDetailed

SpecFeatures == InitFeatures /\ [][NextFeatures]_vars

\* normalized = normalize(code, remove_comments, normalize_whitespace, normalize_variables)
Normalize ==
  /\ toggles = << >>
  /\ \E remove_comments, normalize_whitespace, normalize_variables \in BOOLEAN :
       /\ toggles' = <<remove_comments, normalize_whitespace, normalize_variables>>
       /\ normalized' =
            normalize(code, remove_comments, normalize_whitespace, normalize_variables)
  /\ UNCHANGED <<code, ruleVars, normVars, featVars, batchVars, clfVars, concVars>>

\* normalize under each choice of its flags, on snippets of comments, blanks
\* and declarations
InitNormalize == code \in NormSnippets /\ InitRuleVars /\ InitNormVars /\ InitExtVars

NextNormalize == Normalize

SpecNormalize == InitNormalize /\ [][NextNormalize]_vars

\* labels = predict_batch(snippets)
PredictBatch ==
  /\ labels = NoLabels
  /\ labels' = predict_batch(snippets)
  /\ UNCHANGED <<code, snippets, ruleVars, normVars, featVars, pipeVars, clfVars, concVars>>

\* predict_batch on lists of short snippets
InitBatch ==
  /\ code = << >>
  /\ snippets \in Batches
  /\ InitRuleVars /\ InitNormVars /\ InitResultVars

NextBatch == PredictBatch

SpecBatch == InitBatch /\ [][NextBatch]_vars

\* clf.train(codes, labels)
Train ==
  /\ Len(log) < MaxCalls
  /\ \E codes_len, labels_len \in 0..MaxListLen, fit_ok \in BOOLEAN :
       LET result == SimpleClassifier_train(_is_trained, codes_len, labels_len, fit_ok)
       IN /\ _is_trained' = result.trained
          /\ log' = Append(log, Entry("train", codes_len # labels_len, _is_trained, result))
  /\ UNCHANGED <<code, ruleVars, normVars, featVars, batchVars, pipeVars, concVars>>

\* clf.predict(codes)
ClassifierPredict ==
  /\ Len(log) < MaxCalls
  /\ \E pipeline_ok \in BOOLEAN :
       LET result == SimpleClassifier_predict(_is_trained, pipeline_ok)
       IN /\ _is_trained' = result.trained
          /\ log' = Append(log, Entry("predict", FALSE, _is_trained, result))
  /\ UNCHANGED <<code, ruleVars, normVars, featVars, batchVars, pipeVars, concVars>>

\* clf.predict_proba(codes)
ClassifierPredictProba ==
  /\ Len(log) < MaxCalls
  /\ \E pipeline_ok \in BOOLEAN :
       LET result == SimpleClassifier_predict_proba(_is_trained, pipeline_ok)
       IN /\ _is_trained' = result.trained
          /\ log' = Append(log, Entry("predict_proba", FALSE, _is_trained, result))
  /\ UNCHANGED <<code, ruleVars, normVars, featVars, batchVars, pipeVars, concVars>>

\* a freshly constructed SimpleClassifier under any sequence of calls
InitClassifier == code = << >> /\ InitRuleVars /\ InitNormVars /\ InitExtVars

NextClassifier == Train \/ ClassifierPredict \/ ClassifierPredictProba

SpecClassifier == InitClassifier /\ [][NextClassifier]_vars

\* A call in progress is a frame: the operation, its argument, the position
\* pc in the operation's loop or step list, and the local accumulator acc
\* (triggered, matches, the labels so far, the code so far).  overlap records
\* whether another thread was inside a call during this one.

OthersRunning(t) == \E u \in Threads \ {t} : threads[u].status = "running"

Running(f, pc, acc) == [f EXCEPT !.pc = pc, !.acc = acc]

Done(f, result) ==
  [status |-> "done", calls |-> f.calls, op |-> f.op, arg |-> f.arg,
   result |-> result, overlap |-> f.overlap]

\* one turn of predict's loop
predict_step(rules, f) ==
  IF f.pc > Len(rules) THEN Done(f, "secure")
  ELSE IF Matches(rules[f.pc], f.arg) THEN Done(f, "insecure")
  ELSE Running(f, f.pc + 1, f.acc)

\* one turn of predict_detailed's loop with the list started anew at every rule
predict_detailed_step_restarting(rules, f) ==
  IF f.pc > Len(rules)
  THEN Done(f, [label |-> IF f.acc # << >> THEN "insecure" ELSE "secure",
                triggered_rules |-> f.acc])
  ELSE Running(f, f.pc + 1,
               IF Matches(rules[f.pc], f.arg) THEN <<rules[f.pc].name>> ELSE << >>)

\* one turn of predict_detailed's loop, or its return
predict_detailed_step(rules, f) ==
  IF f.pc > Len(rules)
  THEN Done(f, [label |-> IF f.acc # << >> THEN "insecure" ELSE "secure",
                triggered_rules |-> f.acc])
  ELSE Running(f, f.pc + 1,
               IF Matches(rules[f.pc], f.arg) THEN Append(f.acc, rules[f.pc].name)
               ELSE f.acc)

\* one element of predict_batch's comprehension, or its return
predict_batch_step(rules, f) ==
  IF f.pc > Len(f.arg) THEN Done(f, f.acc)
  ELSE Running(f, f.pc + 1, Append(f.acc, PredictFrom(rules, f.arg[f.pc], 1)))

\* one of extract_features' four helper calls, or its return
extract_features_step(cat, f) ==
  CASE f.pc = 1 ->
         Running(f, 2, Append(f.acc, ExtendFrom(cat.api_call_patterns, f.arg, 1)))
    [] f.pc = 2 ->
         Running(f, 3, Append(f.acc, KeywordsIn(cat.crypto_keywords, Upper(f.arg))))
    [] f.pc = 3 -> Running(f, 4, Append(f.acc, _extract_structural_tokens(f.arg)))
    [] f.pc = 4 ->
         Running(f, 5, Append(f.acc, ExtendFrom(cat.hardcoded_patterns, f.arg, 1)))
    [] OTHER ->
         Done(f, [api_calls |-> f.acc[1], crypto_keywords |-> f.acc[2],
                  structural_tokens |-> f.acc[3], hardcoded_secrets |-> f.acc[4]])

\* one of normalize's three steps, or its return
normalize_step(f) ==
  CASE f.pc = 1 ->
         Running(f, 2, IF f.arg.flags[1] THEN _remove_comments(f.acc) ELSE f.acc)
    [] f.pc = 2 ->
         Running(f, 3, IF f.arg.flags[2] THEN _normalize_whitespace(f.acc) ELSE f.acc)
    [] f.pc = 3 ->
         Running(f, 4, IF f.arg.flags[3] THEN _normalize_variables(f.acc) ELSE f.acc)
    [] OTHER -> Done(f, f.acc)

\* thread t enters an operation
Call ==
  /\ \E t \in Threads, op \in Operations :
       /\ threads[t].status # "running"
       /\ threads[t].calls < MaxThreadCalls
       /\ \E arg \in ThreadArgs(op) :
            threads' =
              [threads EXCEPT ![t] =
                 [status |-> "running", calls |-> threads[t].calls + 1, op |-> op,
                  arg |-> arg, pc |-> 1,
                  acc |-> IF op = "normalize" THEN arg.code ELSE << >>,
                  overlap |-> OthersRunning(t)]]
  /\ UNCHANGED <<code, ruleVars, normVars, featVars, batchVars, pipeVars, clfVars,
                 catalogs>>

\* thread t is inside op
In(t, op) == threads[t].status = "running" /\ threads[t].op = op

\* t's frame as it takes a step
Frame(t) == [threads[t] EXCEPT !.overlap = @ \/ OthersRunning(t)]

StepPredict ==
  /\ \E t \in Threads :
       /\ In(t, "predict")
       /\ threads' = [threads EXCEPT ![t] = predict_step(catalogs.rules, Frame(t))]
  /\ UNCHANGED <<code, ruleVars, normVars, featVars, batchVars, pipeVars, clfVars,
                 catalogs>>

StepPredictDetailed ==
  /\ \E t \in Threads :
       /\ In(t, "predict_detailed")
       /\ threads' =
            [threads EXCEPT ![t] = predict_detailed_step(catalogs.rules, Frame(t))]
  /\ UNCHANGED <<code, ruleVars, normVars, featVars, batchVars, pipeVars, clfVars,
                 catalogs>>

StepPredictBatch ==
  /\ \E t \in Threads :
       /\ In(t, "predict_batch")
       /\ threads' = [threads EXCEPT ![t] = predict_batch_step(catalogs.rules, Frame(t))]
  /\ UNCHANGED <<code, ruleVars, normVars, featVars, batchVars, pipeVars, clfVars,
                 catalogs>>

StepExtractFeatures ==
  /\ \E t \in Threads :
       /\ In(t, "extract_features")
       /\ threads' = [threads EXCEPT ![t] = extract_features_step(catalogs, Frame(t))]
  /\ UNCHANGED <<code, ruleVars, normVars, featVars, batchVars, pipeVars, clfVars,
                 catalogs>>

StepNormalize ==
  /\ \E t \in Threads :
       /\ In(t, "normalize")
       /\ threads' = [threads EXCEPT ![t] = normalize_step(Frame(t))]
  /\ UNCHANGED <<code, ruleVars, normVars, featVars, batchVars, pipeVars, clfVars,
                 catalogs>>

\* the threads calling into the rule engine, the extractor and the normalizer,
\* their steps interleaved in any order
InitThreads == code = << >> /\ InitRuleVars /\ InitNormVars /\ InitExtVars

NextThreads ==
  \/ Call
  \/ StepPredict
  \/ StepPredictDetailed
  \/ StepPredictBatch
  \/ StepExtractFeatures
  \/ StepNormalize

SpecThreads == InitThreads /\ [][NextThreads]_vars

\* ------------------------------------------------- properties: rule engine

\* the registered rule names, in registration order
RegisteredNames ==
  <<"ecb_mode", "md5_hash", "sha1_hash", "hardcoded_key", "hardcoded_key_string",
    "static_iv", "insecure_random", "des_usage", "no_padding", "low_pbe_iterations">>

\* where name stands in the sequence names (0: nowhere)
IndexIn(names, name) ==
  IF \E k \in DOMAIN names : names[k] = name
  THEN CHOOSE k \in DOMAIN names : names[k] = name ELSE 0

\* the start positions at which a rule's pattern occurs in s
Occurrences(rule, s) ==
  {i \in 1..(Len(s) + 1) : MatchEnds(rule.pattern, s, i, rule.ic) # << >>}

Triggered(name) == name \in Range(detailed.triggered_rules)

\* C1: predict returns "insecure" if and only if predict_detailed's
\* triggered_rules is non-empty, predict_detailed's label equals predict's
\* result, and otherwise both say "secure" with an empty triggered list.
C1_PredictAgreesWithDetailed ==
  (label # "none" /\ detailed # NoResult) =>
    /\ label \in {"secure", "insecure"}
    /\ (label = "insecure") <=> (detailed.triggered_rules # << >>)
    /\ detailed.label = label
    /\ (label = "secure") => (detailed.triggered_rules = << >>)

\* both calls made on a snippet that some rule matches
C1_Witness ==
  /\ label = "insecure"
  /\ detailed # NoResult
  /\ Len(detailed.triggered_rules) >= 1

\* C2: triggered_rules is exactly the subsequence of the registered rule
\* names whose pattern matches the snippet: every matching rule is in it, no
\* other rule is, each name is in it once however often its pattern occurs,
\* and the names stand in registration order.
C2_TriggeredIsMatchingSubsequence ==
  (detailed # NoResult) =>
    LET t == detailed.triggered_rules
    IN /\ Len(_RULES) = Len(RegisteredNames)
       /\ \A k \in RuleIds :
            /\ _RULES[k].name = RegisteredNames[k]
            /\ Triggered(RegisteredNames[k]) <=> Matches(_RULES[k], code)
       /\ \A i, j \in 1..Len(t) :
            i < j => /\ t[i] # t[j]
                     /\ IndexIn(RegisteredNames, t[i]) < IndexIn(RegisteredNames, t[j])
       /\ \A i \in 1..Len(t) : IndexIn(RegisteredNames, t[i]) # 0

\* two rules triggered, one of them by a pattern that occurs twice in the snippet
C2_Witness ==
  /\ detailed # NoResult
  /\ Len(detailed.triggered_rules) >= 2
  /\ \E k \in RuleIds :
       /\ Triggered(_RULES[k].name)
       /\ Cardinality(Occurrences(_RULES[k], code)) >= 2

\* C10: under every reordering of the rule list predict gives the same
\* verdict and predict_detailed triggers the same set of rule names, each
\* once, in the order of the reordered list; no match is cancelled.
C10_OrderIndependent ==
  (perm # << >>) =>
    LET t == permDetailed.triggered_rules
        order == [k \in RuleIds |-> _RULES[perm[k]].name]
    IN /\ permLabel = label
       /\ permDetailed.label = detailed.label
       /\ Range(t) = Range(detailed.triggered_rules)
       /\ Len(t) = Len(detailed.triggered_rules)
       /\ \A i, j \in 1..Len(t) : i < j => IndexIn(order, t[i]) < IndexIn(order, t[j])

\* a reordering under which the triggered list comes out in another order
C10_Witness ==
  /\ perm = Reversed
  /\ label = "insecure"
  /\ Len(detailed.triggered_rules) >= 2
  /\ permDetailed.triggered_rules # detailed.triggered_rules

\* the arguments of an argument list without nested calls
RECURSIVE SplitArgs(_)
SplitArgs(s) ==
  LET c == FindChar(s, {","}, 1)
  IN IF c > Len(s) THEN <<TrimLeft(TrimRight(s))>>
     ELSE <<TrimLeft(TrimRight(SubSeq(s, 1, c - 1)))>> \o SplitArgs(SubSeq(s, c + 1, Len(s)))

\* the argument lists of the PBEKeySpec(...) constructions in s
PbeArgLists(s) ==
  {SplitArgs(SubSeq(s, SkipWs(s, i + Len(S_PBEKeySpec)) + 1,
                    FindChar(s, {")"}, i) - 1)) :
     i \in {j \in 1..Len(s) :
              /\ LitAt(S_PBEKeySpec, s, j, FALSE)
              /\ SkipWs(s, j + Len(S_PBEKeySpec)) <= Len(s)
              /\ s[SkipWs(s, j + Len(S_PBEKeySpec))] = "("
              /\ FindChar(s, {")"}, j) <= Len(s)}}

\* a positive decimal count: digits, the first of them not 0
IsCount(a) == a # << >> /\ a[1] \in Digits \ {"0"} /\ \A k \in 1..Len(a) : a[k] \in Digits

\* C7: on a PBEKeySpec construction whose iteration-count slot (the third
\* argument) holds a count, low_pbe_iterations triggers exactly when that
\* count has one to three digits (is below 1000); a construction whose count
\* is 1000 or more is not flagged, whatever its other arguments are.
C7_LowPbeIffShortIterationCount ==
  (detailed # NoResult) =>
    \A args \in PbeArgLists(code) :
      (Len(args) >= 3 /\ IsCount(args[3])) =>
        (Triggered("low_pbe_iterations") <=> Len(args[3]) <= 3)

\* where the algorithm name of a Cipher.getInstance("...") call at i starts (0: no such call)
AlgStart(s, i) ==
  LET open == SkipWs(s, i + Len(S_CipherGetInstance))
      quote == SkipWs(s, open + 1)
  IN IF /\ LitAt(S_CipherGetInstance, s, i, FALSE)
        /\ open <= Len(s) /\ s[open] = "("
        /\ quote <= Len(s) /\ s[quote] = DQ
        /\ FindChar(s, {DQ}, quote + 1) <= Len(s)
     THEN quote + 1 ELSE 0

\* the algorithm names given to Cipher.getInstance in s
CipherAlgs(s) ==
  {SubSeq(s, AlgStart(s, i), FindChar(s, {DQ}, AlgStart(s, i)) - 1) :
     i \in {j \in 1..Len(s) : AlgStart(s, j) # 0}}

\* the name starts with DES, in any letter case
HasDesPrefix(a) ==
  Len(a) >= 3 /\ Fold(a[1]) = "d" /\ Fold(a[2]) = "e" /\ Fold(a[3]) = "s"

\* DES alone, or DES followed by a /mode/padding suffix
IsDesName(a) == HasDesPrefix(a) /\ (Len(a) = 3 \/ a[4] = "/")

\* C8 (as claimed): des_usage triggers for the algorithm name DES, alone or
\* with a /mode/padding suffix, in any letter case, and for no name that
\* merely starts with DES as part of a longer word.
C8_DesOnlyForDesNames ==
  (detailed # NoResult) =>
    (Triggered("des_usage") <=> \E a \in CipherAlgs(code) : IsDesName(a))

\* C8 (amended): des_usage triggers exactly for the names that start with
\* DES, in any letter case, and do not go on with e or E: DES alone and DES
\* with a /mode/padding suffix trigger it, DESede in any case does not, and a
\* longer word such as DESX does.
C8_DesUnlessFollowedByE ==
  (detailed # NoResult) =>
    (Triggered("des_usage")
       <=> \E a \in CipherAlgs(code) :
             HasDesPrefix(a) /\ (Len(a) = 3 \/ Fold(a[4]) # "e"))

\* predict_detailed has run on a call that names a longer word starting with
\* DES, and flagged it
C8_Witness ==
  /\ detailed # NoResult
  /\ Triggered("des_usage")
  /\ \E a \in CipherAlgs(code) : HasDesPrefix(a) /\ Len(a) > 3 /\ a[4] \in WordChars

\* ---------------------------------------------------- properties: normalizer

OpenerAt(s, p) == LitAt(<<"/", "*">>, s, p, FALSE)

CloserAt(s, j) == LitAt(<<"*", "/">>, s, j, FALSE)

\* a block-comment opener at p (a /* whose / does not end a */) with no
\* closer anywhere after it
UnterminatedOpener(s, p) ==
  /\ OpenerAt(s, p)
  /\ ~(p > 1 /\ CloserAt(s, p - 1))
  /\ ~\E j \in (p + 1)..Len(s) : CloserAt(s, j)

EndsWith(s, suffix) ==
  Len(suffix) <= Len(s) /\ SubSeq(s, Len(s) - Len(suffix) + 1, Len(s)) = suffix

HasLineMarker(s) == \E i \in 1..Len(s) : LitAt(<<"/", "/">>, s, i, FALSE)

\* C3 (as claimed): when the text has a block-comment opener with no later
\* closer, comment stripping removes everything from the first such opener
\* through the end: what is left is the stripped text that stood before it.
C3_UnterminatedRemovedToEnd ==
  (passes >= 1) =>
    \A p \in 1..Len(prev) :
      (UnterminatedOpener(prev, p) /\ \A q \in 1..(p - 1) : ~UnterminatedOpener(prev, q))
        => text = _remove_comments(SubSeq(prev, 1, p - 1))

\* C3 (amended): a block-comment opener with no later closer is not removed
\* as a block comment: after block-comment removal the text still ends with
\* the opener and everything that followed it, and only line-comment removal
\* can then take text from it, so that a text without any // comes out
\* ending with the opener and everything that followed it.
C3_UnterminatedOpenerKept ==
  (passes >= 1) =>
    \A p \in 1..Len(prev) :
      UnterminatedOpener(prev, p) =>
        /\ EndsWith(mid, SubSeq(prev, p, Len(prev)))
        /\ ~HasLineMarker(prev) => EndsWith(text, SubSeq(prev, p, Len(prev)))

\* a comment was removed in front of an unterminated opener, which stayed
\* with the text after it
C3_Witness ==
  /\ passes >= 1
  /\ text # prev
  /\ \E p \in 1..Len(prev) :
       /\ UnterminatedOpener(prev, p)
       /\ p + 1 < Len(prev)
       /\ EndsWith(text, SubSeq(prev, p, Len(prev)))

\* C4: what comment stripping returns holds no comment: no line-comment
\* marker // and no terminated block comment /* ... */; stripping it a
\* second time changes nothing.
C4_OutputHasNoComments ==
  /\ (passes >= 1) => /\ ~Search(P_line_comment, text, FALSE)
                      /\ ~Search(P_block_comment, text, FALSE)
  /\ (passes >= 2) => text = prev

\* C9: whitespace normalization applied to its own result changes nothing.
C9_WhitespaceIdempotent == (passes >= 2) => text = prev

\* a second call on a text of several lines that the first call had changed
C9_Witness ==
  /\ passes = 2
  /\ prev # code
  /\ text = prev
  /\ NL \in Range(text)

\* where the run of word characters that starts at i ends
RECURSIVE WordEnd(_, _)
WordEnd(s, i) == IF i <= Len(s) /\ s[i] \in WordChars THEN WordEnd(s, i + 1) ELSE i

\* s cut into its words (runs of word characters) and its other characters
RECURSIVE Tokens(_)
Tokens(s) ==
  IF s = << >> THEN << >>
  ELSE LET e == IF s[1] \in WordChars THEN WordEnd(s, 1) ELSE 2
       IN <<SubSeq(s, 1, e - 1)>> \o Tokens(SubSeq(s, e, Len(s)))

IsWord(tok) == tok[1] \in WordChars

\* the word follows the keyword class
IsClassName(toks, k) ==
  /\ k > 2 /\ IsWord(toks[k])
  /\ toks[k - 2] = <<"c", "l", "a", "s", "s">>
  /\ toks[k - 1] \in {<<c>> : c \in WhiteSpace}

\* the word is followed by an opening parenthesis
IsMethodName(toks, k) == IsWord(toks[k]) /\ k < Len(toks) /\ toks[k + 1] = <<"(">>

\* C5: identifier anonymization renames no name of the protected set, no
\* class name and no method name: every whole-word occurrence of such a name
\* in the input is that name in the output.
C5_ProtectedClassMethodNamesKept ==
  (passes >= 1) =>
    LET a == Tokens(prev)
        b == Tokens(text)
    IN /\ Len(a) = Len(b)
       /\ \A k \in 1..Len(a) :
            (a[k] \in _protected \/ IsClassName(a, k) \/ IsMethodName(a, k))
              => b[k] = a[k]

\* C6: identifier anonymization puts VARi in the place of every whole-word
\* occurrence of the i-th collected name (counting from 0), so that distinct
\* collected names get distinct placeholders.
C6_EachNameGetsItsPlaceholder ==
  (passes >= 1) =>
    LET names == CollectVarNames(prev)
        a == Tokens(prev)
        b == Tokens(text)
    IN /\ Len(a) = Len(b)
       /\ \A k \in 1..Len(a) : \A i \in 1..Len(names) :
            (a[k] = names[i]) => b[k] = VarToken(i - 1)

\* -------------------------------------------- properties: feature extractor

IsList(v) == DOMAIN v = 1..Len(v)

\* kw occurs in s, letter case ignored
OccursFolded(kw, s) == \E i \in 1..Len(s) : LitAt(kw, s, i, TRUE)

StructuralPatterns == <<P_import, P_class, P_method>>

\* s matches no rule, no API-call, hard-coded-secret or structural pattern and
\* holds no keyword
MatchesNoPattern(s) ==
  /\ \A k \in DOMAIN _RULES : ~Matches(_RULES[k], s)
  /\ \A k \in DOMAIN _API_CALL_PATTERNS : ~Search(_API_CALL_PATTERNS[k], s, FALSE)
  /\ \A k \in DOMAIN _HARDCODED_PATTERNS : ~Search(_HARDCODED_PATTERNS[k], s, FALSE)
  /\ \A k \in DOMAIN StructuralPatterns : ~Search(StructuralPatterns[k], s, FALSE)
  /\ \A k \in DOMAIN _CRYPTO_KEYWORDS : ~OccursFolded(_CRYPTO_KEYWORDS[k], s)

AllCalled == features # NoFeatures /\ label # "none" /\ detailed # NoResult

\* C12: extract_features always returns all four fields, each a list (the
\* structural one three counts), never a missing or null one; for the empty
\* string and for any snippet matching no pattern the three lists are empty,
\* the three counts are 0, and predict returns secure with no triggered rule.
C12_FeaturesAlwaysComplete ==
  /\ (features # NoFeatures) =>
       /\ DOMAIN features =
            {"api_calls", "crypto_keywords", "structural_tokens", "hardcoded_secrets"}
       /\ IsList(features.api_calls)
       /\ IsList(features.crypto_keywords)
       /\ IsList(features.hardcoded_secrets)
       /\ DOMAIN features.structural_tokens =
            {"import_count", "class_count", "method_count"}
       /\ \A f \in DOMAIN features.structural_tokens :
            features.structural_tokens[f] \in Nat
  /\ (AllCalled /\ (code = << >> \/ MatchesNoPattern(code))) =>
       /\ features.api_calls = << >>
       /\ features.crypto_keywords = << >>
       /\ features.hardcoded_secrets = << >>
       /\ features.structural_tokens.import_count = 0
       /\ features.structural_tokens.class_count = 0
       /\ features.structural_tokens.method_count = 0
       /\ label = "secure"
       /\ detailed = [label |-> "secure", triggered_rules |-> << >>]

\* all three were called on a non-empty snippet that matches no pattern
C12_Witness == AllCalled /\ code # << >> /\ MatchesNoPattern(code)


\* the start positions of the matches of pattern re in s
StartsOf(re, s) == {i \in 1..Len(s) : MatchEnds(re, s, i, FALSE) # << >>}

\* pattern re matches the whole of entry
FullMatch(re, entry) ==
  \E k \in DOMAIN MatchEnds(re, entry, 1, FALSE) :
     MatchEnds(re, entry, 1, FALSE)[k] = Len(entry) + 1

\* C15: for each registered API-call pattern, api_calls holds as many entries
\* of that pattern as the snippet has occurrences of it: a call written n
\* times is recorded n times.
C15_EveryApiOccurrenceRecorded ==
  (features # NoFeatures) =>
    \A k \in DOMAIN _API_CALL_PATTERNS :
       Cardinality({j \in DOMAIN features.api_calls :
                      FullMatch(_API_CALL_PATTERNS[k], features.api_calls[j])})
         = Cardinality(StartsOf(_API_CALL_PATTERNS[k], code))

\* some API call is written more than once and recorded as often
C15_Witness ==
  /\ features # NoFeatures
  /\ \E k \in DOMAIN _API_CALL_PATTERNS :
       /\ Cardinality(StartsOf(_API_CALL_PATTERNS[k], code)) >= 2
       /\ \E i, j \in DOMAIN features.api_calls :
            /\ i # j
            /\ features.api_calls[i] = features.api_calls[j]
            /\ FullMatch(_API_CALL_PATTERNS[k], features.api_calls[i])

\* the positions of list that hold entry
PositionsOf(entry, list) == {j \in DOMAIN list : list[j] = entry}

\* C16: crypto_keywords holds a keyword of the vocabulary exactly when the
\* keyword occurs in the snippet, letter case ignored, holds nothing else, and
\* holds each keyword at most once however often it occurs.
C16_KeywordsIffPresentOnce ==
  (features # NoFeatures) =>
    /\ \A k \in DOMAIN _CRYPTO_KEYWORDS :
         LET kw == _CRYPTO_KEYWORDS[k]
             n == Cardinality(PositionsOf(kw, features.crypto_keywords))
         IN n = (IF OccursFolded(kw, code) THEN 1 ELSE 0)
    /\ \A j \in DOMAIN features.crypto_keywords :
         \E k \in DOMAIN _CRYPTO_KEYWORDS :
            features.crypto_keywords[j] = _CRYPTO_KEYWORDS[k]

\* a keyword occurs twice, once in another letter case than the vocabulary's,
\* and is reported
C16_Witness ==
  /\ features # NoFeatures
  /\ \E k \in DOMAIN _CRYPTO_KEYWORDS :
       LET kw == _CRYPTO_KEYWORDS[k]
       IN /\ Cardinality({i \in 1..Len(code) : LitAt(kw, code, i, TRUE)}) >= 2
          /\ \E i \in 1..Len(code) : LitAt(kw, code, i, TRUE) /\ ~LitAt(kw, code, i, FALSE)
          /\ PositionsOf(kw, features.crypto_keywords) # {}


\* where the class name that ends with the word at i starts, package prefix included
RECURSIVE QualifiedStart(_, _)
QualifiedStart(s, i) ==
  IF i > 1 /\ s[i - 1] \in WordChars \cup {"."} THEN QualifiedStart(s, i - 1) ELSE i

\* the last position at or before i that holds no whitespace
RECURSIVE SkipWsBack(_, _)
SkipWsBack(s, i) == IF i >= 1 /\ s[i] \in WhiteSpace THEN SkipWsBack(s, i - 1) ELSE i

\* at i stands the class name of a construction `new SecretKeySpec` or
\* `new some.package.SecretKeySpec`
IsKeySpecConstruction(s, i) ==
  /\ LitAt(S_SecretKeySpec, s, i, FALSE)
  /\ i > 1 /\ s[i - 1] \notin WordChars
  /\ LET q == QualifiedStart(s, i)
         w == SkipWsBack(s, q - 1)
     IN /\ q > 1 /\ s[q - 1] \in WhiteSpace
        /\ w >= 3 /\ SubSeq(s, w - 2, w) = S_new
        /\ (w = 3 \/ s[w - 3] \notin WordChars)

\* the first } at or after j that is not the character literal '}'
RECURSIVE ClosingBrace(_, _)
ClosingBrace(s, j) ==
  IF j > Len(s) THEN j
  ELSE IF s[j] = "}" /\ ~(j > 1 /\ j < Len(s) /\ s[j - 1] = "'" /\ s[j + 1] = "'") THEN j
  ELSE ClosingBrace(s, j + 1)

\* the non-empty array literal `new byte[] {...}` that starts at a; << >> if none does
ByteArrayLiteralAt(s, a) ==
  LET b == SkipWs(s, a + 3)
      lb == SkipWs(s, b + 4)
      rb == SkipWs(s, lb + 1)
      open == SkipWs(s, rb + 1)
      close == ClosingBrace(s, open + 1)
  IN IF /\ LitAt(S_new, s, a, FALSE) /\ b > a + 3 /\ LitAt(S_byte, s, b, FALSE)
        /\ LitAt(<<"[">>, s, lb, FALSE) /\ LitAt(<<"]">>, s, rb, FALSE)
        /\ LitAt(<<"{">>, s, open, FALSE)
        /\ close <= Len(s) /\ close > open + 1
     THEN SubSeq(s, a, close) ELSE << >>

\* the first argument of the construction whose class name is at i, when it is
\* such a literal
FirstArgLiteral(s, i) ==
  LET j == SkipWs(s, i + Len(S_SecretKeySpec))
  IN IF LitAt(<<"(">>, s, j, FALSE) THEN ByteArrayLiteralAt(s, SkipWs(s, j + 1)) ELSE << >>

\* the byte-array literals that are first argument of a SecretKeySpec construction
KeyLiterals(s) ==
  {FirstArgLiteral(s, i) : i \in {p \in 1..Len(s) : IsKeySpecConstruction(s, p)}} \ {<< >>}

\* C14: whenever the snippet holds a SecretKeySpec construction whose first
\* argument is a non-empty inline byte-array literal, predict returns insecure,
\* predict_detailed reports hardcoded_key, and hardcoded_secrets holds that
\* literal as written.
C14_InlineKeyDetectedAndReported ==
  AllCalled =>
    \A literal \in KeyLiterals(code) :
       /\ label = "insecure"
       /\ Triggered("hardcoded_key")
       /\ \E j \in DOMAIN features.hardcoded_secrets :
            features.hardcoded_secrets[j] = literal


\* ------------------------------------------------- properties: normalize

\* the documented order of the steps, each with the position of its flag
StepOrder == <<"comments", "whitespace", "variables">>

Step(name, s) ==
  CASE name = "comments" -> _remove_comments(s)
    [] name = "whitespace" -> _normalize_whitespace(s)
    [] name = "variables" -> _normalize_variables(s)

\* the steps of order whose flag is set, in that order
EnabledSteps(order, flags) ==
  LET Enabled(name) == flags[IndexIn(StepOrder, name)]
  IN SelectSeq(order, Enabled)

\* the steps applied one after the other, first to last
RECURSIVE ApplySteps(_, _)
ApplySteps(steps, s) ==
  IF steps = << >> THEN s ELSE ApplySteps(Tail(steps), Step(Head(steps), s))

\* C13: normalize's result is the composition of exactly its enabled steps in
\* the order comments, whitespace, identifiers, for each of the 8 choices of
\* the flags; with all three disabled the input comes back unchanged.
C13_EnabledStepsInFixedOrder ==
  (toggles # << >>) =>
    /\ normalized = ApplySteps(EnabledSteps(StepOrder, toggles), code)
    /\ (toggles = <<FALSE, FALSE, FALSE>>) => normalized = code

\* all three steps ran, on a snippet where whitespace normalization before
\* comment stripping, and identifier anonymization before both, give other texts
C13_Witness ==
  /\ toggles = <<TRUE, TRUE, TRUE>>
  /\ normalized # code
  /\ normalized # ApplySteps(<<"whitespace", "comments", "variables">>, code)
  /\ normalized # ApplySteps(<<"variables", "comments", "whitespace">>, code)


\* ----------------------------------------------- properties: predict_batch

\* the label the rule list gives a snippet: insecure exactly when a rule matches
LabelOf(s) == IF \E k \in DOMAIN _RULES : Matches(_RULES[k], s) THEN "insecure" ELSE "secure"

\* C17: predict_batch returns one label per snippet, in input order: the
\* result is as long as the list and its i-th label is predict's label of the
\* i-th snippet; the empty list gives the empty list.
C17_BatchIsPredictPerItem ==
  (labels # NoLabels) =>
    /\ Len(labels) = Len(snippets)
    /\ \A i \in 1..Len(snippets) :
         labels[i] = LabelOf(snippets[i]) /\ labels[i] = predict(snippets[i])
    /\ (snippets = << >>) => labels = << >>

\* a batch of the largest size whose first and last labels differ
C17_Witness ==
  /\ labels # NoLabels
  /\ Len(snippets) = MaxBatch
  /\ labels[1] = "insecure"
  /\ labels[Len(labels)] = "secure"


\* ---------------------------------------------------- properties: classifier

\* a train call before the k-th call returned
TrainedBefore(k) == \E j \in 1..(k - 1) : log[j].op = "train" /\ log[j].raised = "none"

\* C18: predict and predict_proba raise RuntimeError unless an earlier train
\* call returned; a train call whose two lists differ in length raises
\* ValueError, does not fit and leaves the flag as it was; a set flag is never
\* cleared.  (The flag each call found is the flag the call before left.)
C18_TrainedFlagProtocol ==
  /\ _is_trained = (IF log = << >> THEN FALSE ELSE log[Len(log)].after)
  /\ \A k \in DOMAIN log :
       /\ log[k].before = (IF k = 1 THEN FALSE ELSE log[k - 1].after)
       /\ (log[k].op \in {"predict", "predict_proba"} /\ ~TrainedBefore(k))
            => log[k].raised = "RuntimeError"
       /\ (log[k].op = "train" /\ log[k].mismatch)
            => /\ log[k].raised = "ValueError"
               /\ ~log[k].fit
               /\ log[k].after = log[k].before
       /\ log[k].before => log[k].after

\* predict refused, then an ill-formed train, then a train that returned,
\* then predict_proba that returned
C18_Witness ==
  /\ Len(log) = 4
  /\ log[1].op = "predict" /\ log[1].raised = "RuntimeError"
  /\ log[2].op = "train" /\ log[2].mismatch
  /\ log[3].op = "train" /\ log[3].raised = "none"
  /\ log[4].op = "predict_proba" /\ log[4].raised = "none"
  /\ _is_trained


\* ----------------------------------------------------- properties: threads

\* what the operation returns for the argument when nothing else runs
Alone(op, arg) ==
  CASE op = "predict" -> predict(arg)
    [] op = "predict_detailed" -> predict_detailed(arg)
    [] op = "predict_batch" -> predict_batch(arg)
    [] op = "extract_features" -> extract_features(arg)
    [] op = "normalize" -> normalize(arg.code, arg.flags[1], arg.flags[2], arg.flags[3])

Finished(t) == threads[t].status = "done"

\* C11: the four catalogs are as defined at import whatever calls have run or
\* are running, and every call returns what the operation returns for its own
\* argument alone: two calls with the same argument return the same, whichever
\* calls ran before them or at the same time.
C11_CatalogsFixedResultsByArgument ==
  /\ catalogs = Catalogs
  /\ \A t \in Threads :
       Finished(t) => threads[t].result = Alone(threads[t].op, threads[t].arg)
  /\ \A t, u \in Threads :
       (Finished(t) /\ Finished(u) /\ threads[t].op = threads[u].op
          /\ threads[t].arg = threads[u].arg)
         => threads[t].result = threads[u].result

\* two threads made the same call at the same time and got the same list of
\* two triggered rules
C11_Witness ==
  /\ Finished("t1") /\ Finished("t2")
  /\ threads["t1"].overlap /\ threads["t2"].overlap
  /\ threads["t1"].op = "predict_detailed" /\ threads["t2"].op = "predict_detailed"
  /\ threads["t1"].arg = threads["t2"].arg
  /\ Len(threads["t1"].result.triggered_rules) = 2
  /\ threads["t2"].result = threads["t1"].result


====
